---- MODULE Spec2Model ----
(***************************************************************************)
(* The document store of src/exercises/exercise-15/database.ts: a log of   *)
(* tagged JSON lines, the recursive query matcher, and find/insert/delete  *)
(* serialised through one async-lock key.                                  *)
(*                                                                         *)
(* Strings are sequences of one-character strings, so that toLowerCase and *)
(* split(' ') are computed and not assumed.                                *)
(***************************************************************************)
EXTENDS Integers, Sequences, FiniteSets, TLC

VARIABLES
    log,                        \* the file: the sequence of its lines
    ops,                        \* every call made so far, in call order
    holder,                     \* the operation running under the lock (0: none)
    queue,                      \* async-lock's pending queue for lockKey
    alive,                      \* FALSE once an uncaught exception ended the process
    faults,                     \* storage operations that have failed so far
    lastSettled,                \* the operation settled by the last step (0: none)
    everTombstoned,             \* records for which a D line has been in the log
    fullTextSearchFieldNames,   \* set by the constructor
    textRecord,                 \* matcher harness: the record
    textSearch,                 \* matcher harness: the $text string
    matchQuery,                 \* matcher harness: the query
    textOut,                    \* matcher harness: "none", "match" or "nomatch"
    locks,                      \* two handles: the keys of each AsyncLock instance
    calls                       \* two handles: every call made so far, in call order

vars == << log, ops, holder, queue, alive, faults, lastSettled, everTombstoned,
           fullTextSearchFieldNames, textRecord, textSearch, matchQuery, textOut,
           locks, calls >>

dbVars == << log, ops, holder, queue, alive, faults, lastSettled, everTombstoned >>
textVars == << textRecord, textSearch, matchQuery, textOut >>
handleVars == << locks, calls >>

-----------------------------------------------------------------------------
(* Bounds *)

MaxCalls == 3
MaxQueryCalls == 2
MaxShapeCalls == 2
MaxLockCalls == 2
MaxShapeLines == 2
MaxFaults == 1
MaxInitLines == 2
MaxSearchLen == 3
MaxFieldLen == 2
MaxSubqueries == 2
MaxHandleCalls == 3

-----------------------------------------------------------------------------
(* Strings *)

Str(n) == UNION { [1..k -> {"a", "A", "b", " "}] : k \in 0..n }

\* String.prototype.toLowerCase, on the characters the model uses
LowerChar(c) == CASE c = "A" -> "a" [] c = "B" -> "b" [] OTHER -> c

toLowerCase(s) == [i \in 1..Len(s) |-> LowerChar(s[i])]

\* String.prototype.split(' '): every segment between single spaces, empty
\* segments included; ''.split(' ') is ['']
RECURSIVE split(_)
split(s) ==
    IF \A i \in 1..Len(s) : s[i] # " "
    THEN << s >>
    ELSE LET i == CHOOSE k \in 1..Len(s) :
                      s[k] = " " /\ \A j \in 1..(k - 1) : s[j] # " "
         IN  << SubSeq(s, 1, i - 1) >> \o split(SubSeq(s, i + 1, Len(s)))

\* Array.prototype.includes
includes(arr, x) == \E k \in 1..Len(arr) : arr[k] = x

\* the order JavaScript's < gives two strings (by code unit)
CodeUnit(c) ==
    CASE c = " " -> 32 [] c = "A" -> 65 [] c = "B" -> 66 [] c = "a" -> 97
      [] c = "b" -> 98 [] c = "n" -> 110 [] c = "o" -> 111 [] OTHER -> 0

RECURSIVE StrLess(_, _)
StrLess(a, b) ==
    IF b = << >> THEN FALSE
    ELSE IF a = << >> THEN TRUE
    ELSE IF CodeUnit(a[1]) # CodeUnit(b[1]) THEN CodeUnit(a[1]) < CodeUnit(b[1])
    ELSE StrLess(Tail(a), Tail(b))

\* typeof v === 'number', for the numbers the model's records and queries hold
NumberStrings == { ToString(n) : n \in 0..99 }

IsNumber(v) == ToString(v) \in NumberStrings

\* JavaScript's < on two values of one type (TypeScript gives a condition the
\* type of its field)
Less(a, b) == IF IsNumber(a) THEN a < b ELSE StrLess(a, b)

-----------------------------------------------------------------------------
(* The query matcher *)

\* the value of an absent condition
Undefined == [undefined |-> TRUE]

IsUndefined(x) == "undefined" \in DOMAIN x

HasKey(obj, k) == k \in DOMAIN obj

matchesConditionGe(value, condition) ==
    IF IsUndefined(condition) THEN FALSE
    ELSE IF HasKey(condition, "eq") THEN value = condition.eq
    ELSE IF HasKey(condition, "gt") THEN ~Less(value, condition.gt)
    ELSE IF HasKey(condition, "lt") THEN Less(value, condition.lt)
    ELSE IF HasKey(condition, "in") THEN includes(condition.in, value)
    ELSE FALSE

matchesConditionNoEq(value, condition) ==
    IF IsUndefined(condition) THEN FALSE
    ELSE IF HasKey(condition, "gt") THEN Less(condition.gt, value)
    ELSE IF HasKey(condition, "lt") THEN Less(value, condition.lt)
    ELSE IF HasKey(condition, "in") THEN includes(condition.in, value)
    ELSE FALSE

matchesCondition(value, condition) ==
    IF IsUndefined(condition) THEN FALSE
    ELSE IF HasKey(condition, "eq") THEN value = condition.eq
    ELSE IF HasKey(condition, "gt") THEN Less(condition.gt, value)
    ELSE IF HasKey(condition, "lt") THEN Less(value, condition.lt)
    ELSE IF HasKey(condition, "in") THEN includes(condition.in, value)
    ELSE FALSE      \* falls off the end: undefined, which every() reads as false

getObjectKeys(x) == DOMAIN x

\* a condition that is not an object but a number
Primitive(v) == [primitive |-> v]

IsPrimitive(x) == "primitive" \in DOMAIN x

\* '$eq' in condition raises a TypeError when condition is a primitive that
\* !condition lets through: a number other than 0
conditionThrows(condition) == IsPrimitive(condition) /\ condition.primitive # 0

matchesPropertyQuery(record, propertyQuery) ==
    \A key \in getObjectKeys(propertyQuery) :
        matchesCondition(record[key], propertyQuery[key])

matchesText(record, text, fieldNames) ==
    LET searchableFieldWords ==
            [i \in 1..Len(fieldNames) |-> split(toLowerCase(record[fieldNames[i]]))]
        wordsToSearch == split(toLowerCase(text))
    IN  \A k \in 1..Len(wordsToSearch) :
            \E i \in 1..Len(searchableFieldWords) :
                includes(searchableFieldWords[i], wordsToSearch[k])

RECURSIVE matchesQueryOrFirst(_, _, _)
matchesQueryOrFirst(record, query, fieldNames) ==
    IF HasKey(query, "or")
    THEN \E i \in 1..Len(query.or) :
             matchesQueryOrFirst(record, query.or[i], fieldNames)
    ELSE IF HasKey(query, "and")
    THEN \A i \in 1..Len(query.and) :
             matchesQueryOrFirst(record, query.and[i], fieldNames)
    ELSE IF HasKey(query, "text")
    THEN matchesText(record, query.text, fieldNames)
    ELSE matchesPropertyQuery(record, query)

RECURSIVE matchesQuery(_, _, _)
matchesQuery(record, query, fieldNames) ==
    IF HasKey(query, "and")
    THEN \A i \in 1..Len(query.and) : matchesQuery(record, query.and[i], fieldNames)
    ELSE IF HasKey(query, "or")
    THEN \E i \in 1..Len(query.or) : matchesQuery(record, query.or[i], fieldNames)
    ELSE IF HasKey(query, "text")
    THEN matchesText(record, query.text, fieldNames)
    ELSE matchesPropertyQuery(record, query)

-----------------------------------------------------------------------------
(* Records, queries and log lines of the collection the model runs on *)

Ann == [name |-> << "A", "n", "n" >>, age |-> 30]
Bob == [name |-> << "B", "o", "b" >>, age |-> 25]

Records == { Ann, Bob }

EmptyQuery == [k \in {} |-> Undefined]
AgeGt26 == [age |-> [gt |-> 26]]
AgeGt25 == [age |-> [gt |-> 25]]
AgeLt30 == [age |-> [lt |-> 30]]
NameInBob == [name |-> [in |-> << Bob.name >>]]
NameEqBob == [name |-> [eq |-> Bob.name]]

\* the queries of the concurrent runs
DeleteQueries == { NameEqBob, AgeGt26 }
FindQueries == { EmptyQuery, NameEqBob, AgeGt25 }

\* the queries of the runs that exercise the conditions
ConditionQueries == { EmptyQuery, AgeGt26, AgeGt25, AgeLt30, NameInBob, NameEqBob }

\* JSON.stringify of a record, and a text JSON.parse throws on
JSONstringify(record) == [json |-> record]
Garbage == [garbage |-> TRUE]
Parses(text) == HasKey(text, "json")
JSONparse(text) == text.json

\* `${symbol}${JSON.stringify(record)}\n`
Line(symbol, record) == [tag |-> symbol, text |-> JSONstringify(record)]

InitLines == { Line("E", Ann), Line("E", Bob), Line("D", Bob),
               [tag |-> "E", text |-> Garbage] }

InitLogs == UNION { [1..k -> InitLines] : k \in 0..MaxInitLines }

-----------------------------------------------------------------------------
(* getRecords *)

IsLive(x) == x.tag = "E"

LiveLines(data) == SelectSeq(data, IsLive)

\* JSON.parse throws inside the readFile callback
ParseThrows(data) == \E i \in 1..Len(LiveLines(data)) : ~Parses(LiveLines(data)[i].text)

getRecords(data) == [i \in 1..Len(LiveLines(data)) |-> JSONparse(LiveLines(data)[i].text)]

-----------------------------------------------------------------------------
(* The lock: async-lock's acquire on the one key *)

FirstStep(kind) == IF kind = "insert" THEN "appending" ELSE "reading"

\* find called without options
NoOptions == [k \in {} |-> 0]

NewOp(kind, arg, symbol, parent, pc) ==
    [kind |-> kind, arg |-> arg, symbol |-> symbol, parent |-> parent, pc |-> pc,
     options |-> NoOptions,
     out |-> << >>, snap |-> << >>, failed |-> FALSE,
     seen |-> { i \in 1..Len(ops) : ops[i].pc \in {"resolved", "rejected"} },
     after |-> lastSettled]

CallerOps == { i \in 1..Len(ops) : ops[i].parent = 0 }

AcquireWithoutLock(kind, arg, symbol, options) ==
    /\ alive
    /\ Cardinality(CallerOps) < MaxCalls
    /\ ops' = Append(ops, [NewOp(kind, arg, symbol, 0, FirstStep(kind))
                              EXCEPT !.options = options])
    /\ holder' = IF holder = 0 THEN Len(ops) + 1 ELSE holder
    /\ queue' = queue
    /\ lastSettled' = 0
    /\ UNCHANGED << log, alive, faults, everTombstoned, fullTextSearchFieldNames,
                    textVars, handleVars >>

\* lock.acquire(lockKey, fn): fn runs at once when the key is free, and is
\* pushed on the key's queue otherwise
AcquireWith(kind, arg, symbol, options) ==
    /\ alive
    /\ Cardinality(CallerOps) < MaxCalls
    /\ IF holder = 0
       THEN /\ ops' = Append(ops, [NewOp(kind, arg, symbol, 0, FirstStep(kind))
                                      EXCEPT !.options = options])
            /\ holder' = Len(ops) + 1
            /\ queue' = queue
       ELSE /\ ops' = Append(ops, [NewOp(kind, arg, symbol, 0, "queued")
                                      EXCEPT !.options = options])
            /\ queue' = Append(queue, Len(ops) + 1)
            /\ holder' = holder
    /\ lastSettled' = 0
    /\ UNCHANGED << log, alive, faults, everTombstoned, fullTextSearchFieldNames,
                    textVars, handleVars >>

Acquire(kind, arg, symbol) == AcquireWith(kind, arg, symbol, NoOptions)

\* fn has settled: async-lock runs the next queued fn, or frees the key.
\* settled is ops with the finished operation's outcome written, pending is
\* the queue as the finished operation left it
Release(o, settled, pending) ==
    /\ lastSettled' = o
    /\ IF pending = << >>
       THEN /\ holder' = 0
            /\ queue' = << >>
            /\ ops' = settled
       ELSE /\ holder' = Head(pending)
            /\ queue' = Tail(pending)
            /\ ops' = [settled EXCEPT ![Head(pending)].pc =
                                          FirstStep(settled[Head(pending)].kind)]

Running(o, pc) == alive /\ o = holder /\ ops[o].pc = pc

TombstonesOf(data) == { data[i].text : i \in { j \in 1..Len(data) : data[j].tag = "D" } }

-----------------------------------------------------------------------------
(* find *)

CallFind(q) == Acquire("find", q, "-")

CallFindWith(q, options) == AcquireWith("find", q, "-", options)

\* every() stops at the first condition that fails; a query of the model
\* with a primitive condition names that one field only, so it is reached
propertyQueryThrows(record, propertyQuery) ==
    \E key \in getObjectKeys(propertyQuery) : conditionThrows(propertyQuery[key])

\* matchesQuery raises: every() and some() evaluate the subqueries in list
\* order and stop at the first that decides
RECURSIVE matchesQueryThrows(_, _)
matchesQueryThrows(record, query) ==
    IF HasKey(query, "and")
    THEN \E i \in 1..Len(query.and) :
             /\ matchesQueryThrows(record, query.and[i])
             /\ \A j \in 1..(i - 1) :
                   /\ ~matchesQueryThrows(record, query.and[j])
                   /\ matchesQuery(record, query.and[j], fullTextSearchFieldNames)
    ELSE IF HasKey(query, "or")
    THEN \E i \in 1..Len(query.or) :
             /\ matchesQueryThrows(record, query.or[i])
             /\ \A j \in 1..(i - 1) :
                   /\ ~matchesQueryThrows(record, query.or[j])
                   /\ ~matchesQuery(record, query.or[j], fullTextSearchFieldNames)
    ELSE IF HasKey(query, "text") THEN FALSE
    ELSE propertyQueryThrows(record, query)

\* records.filter(x => this.matchesQuery(x, query)) raises
FilterThrows(records, query) ==
    \E i \in 1..Len(records) : matchesQueryThrows(records[i], query)

Filter(records, query) ==
    LET Matching(x) == matchesQuery(x, query, fullTextSearchFieldNames)
    IN  SelectSeq(records, Matching)

RECURSIVE compareAscending(_, _, _)
compareAscending(a, b, sortOption) ==
    IF sortOption = << >> THEN 0
    ELSE LET key == sortOption[1].key
         IN  IF Less(a[key], b[key]) THEN -1
             ELSE IF Less(b[key], a[key]) THEN 1
             ELSE compareAscending(a, b, Tail(sortOption))

\* the comparator of sort: sortOption is the option's keys in mapping order,
\* each with its direction
RECURSIVE compare(_, _, _)
compare(a, b, sortOption) ==
    IF sortOption = << >> THEN 0
    ELSE LET key == sortOption[1].key
         IN  IF Less(a[key], b[key]) THEN 0 - sortOption[1].dir
             ELSE IF Less(b[key], a[key]) THEN sortOption[1].dir
             ELSE compare(a, b, Tail(sortOption))

\* x put into the sorted sequence behind every element that does not compare
\* greater: Array.prototype.sort is stable
RECURSIVE InsertSorted(_, _, _)
InsertSorted(sorted, x, sortOption) ==
    IF sorted = << >> THEN << x >>
    ELSE IF compare(sorted[Len(sorted)], x, sortOption) > 0
    THEN Append(InsertSorted(SubSeq(sorted, 1, Len(sorted) - 1), x, sortOption),
                sorted[Len(sorted)])
    ELSE Append(sorted, x)

RECURSIVE sort(_, _)
sort(records, sortOption) ==
    IF records = << >> THEN << >>
    ELSE InsertSorted(sort(SubSeq(records, 1, Len(records) - 1), sortOption),
                      records[Len(records)], sortOption)

projectWhole(record, projectionOption) == record

\* projectionOption is the set of the option's keys
project(record, projectionOption) == [key \in projectionOption |-> record[key]]

\* find, from the records read to the value returned
Shape(records, options) ==
    LET sorted == IF HasKey(options, "sort") THEN sort(records, options.sort)
                  ELSE records
    IN  IF HasKey(options, "projection")
        THEN [i \in 1..Len(sorted) |-> project(sorted[i], options.projection)]
        ELSE sorted

FindReadOkWritingBack(o) ==
    /\ Running(o, "reading") /\ ops[o].kind = "find"
    /\ ~ParseThrows(log)
    /\ ~FilterThrows(getRecords(log), ops[o].arg)
    /\ Release(o, [ops EXCEPT ![o].pc = "resolved",
                              ![o].out = Shape(Filter(getRecords(log), ops[o].arg),
                                               ops[o].options),
                              ![o].snap = log],
               queue)
    /\ log' = LET kept == Shape(Filter(getRecords(log), ops[o].arg),
                                [ops[o].options EXCEPT !.projection = {"name", "age"}])
              IN  [i \in 1..Len(kept) |-> Line("E", kept[i])]
    /\ UNCHANGED << alive, faults, everTombstoned, fullTextSearchFieldNames,
                    textVars, handleVars >>

FindReadOk(o) ==
    /\ Running(o, "reading") /\ ops[o].kind = "find"
    /\ ~ParseThrows(log)
    /\ ~FilterThrows(getRecords(log), ops[o].arg)
    /\ Release(o, [ops EXCEPT ![o].pc = "resolved",
                              ![o].out = Shape(Filter(getRecords(log), ops[o].arg),
                                               ops[o].options),
                              ![o].snap = log],
               queue)
    /\ UNCHANGED << log, alive, faults, everTombstoned, fullTextSearchFieldNames,
                    textVars, handleVars >>

\* the filter raises inside the async function passed to acquire: the
\* function's promise rejects, the lock is released and find rejects
FindRaise(o) ==
    /\ Running(o, "reading") /\ ops[o].kind = "find"
    /\ ~ParseThrows(log)
    /\ FilterThrows(getRecords(log), ops[o].arg)
    /\ Release(o, [ops EXCEPT ![o].pc = "rejected", ![o].snap = log], queue)
    /\ UNCHANGED << log, alive, faults, everTombstoned, fullTextSearchFieldNames,
                    textVars, handleVars >>

\* readFile calls back with an error: getRecords rejects, and so does acquire
ReadFail(o) ==
    /\ Running(o, "reading")
    /\ faults < MaxFaults
    /\ faults' = faults + 1
    /\ Release(o, [ops EXCEPT ![o].pc = "rejected", ![o].snap = log,
                              ![o].failed = TRUE], queue)
    /\ UNCHANGED << log, alive, everTombstoned, fullTextSearchFieldNames, textVars, handleVars >>

\* JSON.parse throws in the readFile callback, outside the promise executor:
\* the promise of getRecords never settles and the exception is uncaught (it
\* ends the process unless the host handles 'uncaughtException')
ReadThrow(o) ==
    /\ Running(o, "reading")
    /\ ParseThrows(log)
    /\ ops' = [ops EXCEPT ![o].pc = "uncaught", ![o].snap = log]
    /\ alive' \in BOOLEAN
    /\ lastSettled' = 0
    /\ UNCHANGED << log, holder, queue, faults, everTombstoned,
                    fullTextSearchFieldNames, textVars, handleVars >>

-----------------------------------------------------------------------------
(* insert *)

CallInsert(record, asDeleted) ==
    Acquire("insert", record, IF asDeleted THEN "D" ELSE "E")

AppendOkAtFront(o) ==
    /\ Running(o, "appending")
    /\ log' = << Line(ops[o].symbol, ops[o].arg) >> \o log
    /\ everTombstoned' = everTombstoned \cup TombstonesOf(log')
    /\ Release(o, [ops EXCEPT ![o].pc = "resolved", ![o].snap = log], queue)
    /\ UNCHANGED << alive, faults, fullTextSearchFieldNames, textVars, handleVars >>

AppendOk(o) ==
    /\ Running(o, "appending")
    /\ log' = Append(log, Line(ops[o].symbol, ops[o].arg))
    /\ everTombstoned' = everTombstoned \cup TombstonesOf(log')
    /\ Release(o, [ops EXCEPT ![o].pc = "resolved", ![o].snap = log], queue)
    /\ UNCHANGED << alive, faults, fullTextSearchFieldNames, textVars, handleVars >>

\* appendFile calls back with an error, which the callback drops
AppendFail(o) ==
    /\ Running(o, "appending")
    /\ faults < MaxFaults
    /\ faults' = faults + 1
    /\ Release(o, [ops EXCEPT ![o].pc = "resolved", ![o].snap = log,
                              ![o].failed = TRUE], queue)
    /\ UNCHANGED << log, alive, everTombstoned, fullTextSearchFieldNames, textVars, handleVars >>

-----------------------------------------------------------------------------
(* delete *)

CallDelete(q) == Acquire("delete", q, "-")

DeleteReadOk(o) ==
    /\ Running(o, "reading") /\ ops[o].kind = "delete"
    /\ ~ParseThrows(log)
    /\ ops' = [ops EXCEPT ![o].pc = "truncating",
                          ![o].out = getRecords(log),
                          ![o].snap = log]
    /\ lastSettled' = 0
    /\ UNCHANGED << log, holder, queue, alive, faults, everTombstoned,
                    fullTextSearchFieldNames, textVars, handleVars >>

recordsToDeleteNegated(records, query) ==
    { i \in 1..Len(records) : ~matchesQuery(records[i], query, fullTextSearchFieldNames) }

\* recordsToDelete, as the positions of the records in `records`
\* (Array.includes compares the parsed objects by identity)
recordsToDelete(records, query) ==
    { i \in 1..Len(records) : matchesQuery(records[i], query, fullTextSearchFieldNames) }

\* records.forEach(async r => await this.insert(r, ...)): every insert calls
\* acquire while delete still holds the key, so each is pushed on the queue
Reinserts(o, records, query) ==
    [i \in 1..Len(records) |->
        NewOp("insert", records[i],
              IF i \in recordsToDelete(records, query) THEN "D" ELSE "E",
              o, "queued")]

\* the rest of delete's callback once truncate has called back: the inserts
\* are queued, the callback returns and the key passes on
AfterTruncate(o, truncateFailed) ==
    LET children == Reinserts(o, ops[o].out, ops[o].arg)
        ids == [i \in 1..Len(children) |-> Len(ops) + i]
    IN  Release(o, [ops EXCEPT ![o].pc = "resolved",
                               ![o].failed = truncateFailed] \o children,
                queue \o ids)

TruncateOk(o) ==
    /\ Running(o, "truncating")
    /\ log' = << >>
    /\ AfterTruncate(o, FALSE)
    /\ UNCHANGED << alive, faults, everTombstoned, fullTextSearchFieldNames,
                    textVars, handleVars >>

\* truncate calls back with an error, which the callback drops
TruncateFail(o) ==
    /\ Running(o, "truncating")
    /\ faults < MaxFaults
    /\ faults' = faults + 1
    /\ AfterTruncate(o, TRUE)
    /\ UNCHANGED << log, alive, everTombstoned, fullTextSearchFieldNames, textVars, handleVars >>

-----------------------------------------------------------------------------
(* Two handles: each Database object constructs its own AsyncLock, and an  *)
(* AsyncLock keeps one queue for each key                                  *)

Handles == { 1, 2 }

lockShared(h) == 1

\* this.lock of handle h: the instance created by the field initialiser
lock(h) == h

lockKey == "lock"

FreeKey == [holder |-> 0, queue |-> << >>]

\* no handle has made a call
HandlesIdle ==
    /\ locks = [l \in Handles |-> [key \in {lockKey} |-> FreeKey]]
    /\ calls = << >>

\* find or insert on handle h calls this.lock.acquire(this.lockKey, fn): fn
\* runs at once when the key of this.lock is free and is queued otherwise
HandleCall(h, kind) ==
    LET c == Len(calls) + 1
        key == locks[lock(h)][lockKey]
    IN  /\ Len(calls) < MaxHandleCalls
        /\ IF key.holder = 0
           THEN /\ calls' = Append(calls, [handle |-> h, kind |-> kind, pc |-> "running"])
                /\ locks' = [locks EXCEPT ![lock(h)][lockKey].holder = c]
           ELSE /\ calls' = Append(calls, [handle |-> h, kind |-> kind, pc |-> "queued"])
                /\ locks' = [locks EXCEPT ![lock(h)][lockKey].queue = Append(@, c)]
        /\ UNCHANGED << dbVars, fullTextSearchFieldNames, textVars >>

\* the storage operation of call c calls back and fn settles: the key passes
\* to the next fn queued on it, or is freed
HandleSettle(c) ==
    LET l == lock(calls[c].handle)
        key == locks[l][lockKey]
    IN  /\ calls[c].pc = "running"
        /\ IF key.queue = << >>
           THEN /\ locks' = [locks EXCEPT ![l][lockKey] = FreeKey]
                /\ calls' = [calls EXCEPT ![c].pc = "settled"]
           ELSE /\ locks' = [locks EXCEPT ![l][lockKey] =
                                [holder |-> Head(key.queue), queue |-> Tail(key.queue)]]
                /\ calls' = [calls EXCEPT ![c].pc = "settled",
                                          ![Head(key.queue)].pc = "running"]
        /\ UNCHANGED << dbVars, fullTextSearchFieldNames, textVars >>

-----------------------------------------------------------------------------
(* Specifications *)

Init ==
    /\ log \in InitLogs
    /\ ops = << >>
    /\ holder = 0
    /\ queue = << >>
    /\ alive = TRUE
    /\ faults = 0
    /\ lastSettled = 0
    /\ everTombstoned = TombstonesOf(log)
    /\ fullTextSearchFieldNames = << "name" >>
    /\ textRecord = Ann
    /\ textSearch = << >>
    /\ matchQuery = EmptyQuery
    /\ textOut = "none"
    /\ HandlesIdle

\* every storage operation succeeds
NoFaultNext ==
    \/ \E q \in FindQueries : CallFind(q)
    \/ \E r \in Records, asDeleted \in BOOLEAN : CallInsert(r, asDeleted)
    \/ \E q \in DeleteQueries : CallDelete(q)
    \/ \E o \in 1..Len(ops) : FindReadOk(o)
    \/ \E o \in 1..Len(ops) : DeleteReadOk(o)
    \/ \E o \in 1..Len(ops) : ReadThrow(o)
    \/ \E o \in 1..Len(ops) : AppendOk(o)
    \/ \E o \in 1..Len(ops) : TruncateOk(o)

NoFaultSpec == Init /\ [][NoFaultNext]_vars

\* storage operations may fail
Next ==
    \/ \E q \in FindQueries : CallFind(q)
    \/ \E r \in Records, asDeleted \in BOOLEAN : CallInsert(r, asDeleted)
    \/ \E q \in DeleteQueries : CallDelete(q)
    \/ \E o \in 1..Len(ops) : FindReadOk(o)
    \/ \E o \in 1..Len(ops) : DeleteReadOk(o)
    \/ \E o \in 1..Len(ops) : ReadThrow(o)
    \/ \E o \in 1..Len(ops) : AppendOk(o)
    \/ \E o \in 1..Len(ops) : TruncateOk(o)
    \/ \E o \in 1..Len(ops) : ReadFail(o)
    \/ \E o \in 1..Len(ops) : AppendFail(o)
    \/ \E o \in 1..Len(ops) : TruncateFail(o)

Spec == Init /\ [][Next]_vars

\* a few calls, with finds over every condition kind
QueryNext ==
    \/ /\ Cardinality(CallerOps) < MaxQueryCalls
       /\ \E q \in ConditionQueries : CallFind(q)
    \/ /\ Cardinality(CallerOps) < MaxQueryCalls
       /\ \E q \in DeleteQueries : CallDelete(q)
    \/ \E o \in 1..Len(ops) : FindReadOk(o)
    \/ \E o \in 1..Len(ops) : DeleteReadOk(o)
    \/ \E o \in 1..Len(ops) : ReadThrow(o)
    \/ \E o \in 1..Len(ops) : AppendOk(o)
    \/ \E o \in 1..Len(ops) : TruncateOk(o)

QuerySpec == Init /\ [][QueryNext]_vars

\* find, insert and delete called on one handle in every interleaving, with
\* storage operations that may fail
LockNext ==
    \/ /\ Cardinality(CallerOps) < MaxLockCalls
       /\ CallFind(EmptyQuery)
    \/ /\ Cardinality(CallerOps) < MaxLockCalls
       /\ \E asDeleted \in BOOLEAN : CallInsert(Bob, asDeleted)
    \/ /\ Cardinality(CallerOps) < MaxLockCalls
       /\ CallDelete(NameEqBob)
    \/ \E o \in 1..Len(ops) : FindReadOk(o)
    \/ \E o \in 1..Len(ops) : DeleteReadOk(o)
    \/ \E o \in 1..Len(ops) : ReadThrow(o)
    \/ \E o \in 1..Len(ops) : AppendOk(o)
    \/ \E o \in 1..Len(ops) : TruncateOk(o)
    \/ \E o \in 1..Len(ops) : ReadFail(o)
    \/ \E o \in 1..Len(ops) : AppendFail(o)
    \/ \E o \in 1..Len(ops) : TruncateFail(o)

LockSpec == Init /\ [][LockNext]_vars

\* inserts, finds and deletes on logs that hold lines tagged E, D and
\* otherwise; every storage operation succeeds
TagLines == { Line("E", Ann), Line("D", Bob), Line("X", Bob) }

TagLogs == UNION { [1..k -> TagLines] : k \in 0..MaxInitLines }

TagInit ==
    /\ log \in TagLogs
    /\ ops = << >>
    /\ holder = 0
    /\ queue = << >>
    /\ alive = TRUE
    /\ faults = 0
    /\ lastSettled = 0
    /\ everTombstoned = TombstonesOf(log)
    /\ fullTextSearchFieldNames = << "name" >>
    /\ textRecord = Ann
    /\ textSearch = << >>
    /\ matchQuery = EmptyQuery
    /\ textOut = "none"
    /\ HandlesIdle

TagNext ==
    \/ /\ Cardinality(CallerOps) < MaxLockCalls
       /\ CallFind(EmptyQuery)
    \/ /\ Cardinality(CallerOps) < MaxLockCalls
       /\ \E r \in Records, asDeleted \in BOOLEAN : CallInsert(r, asDeleted)
    \/ /\ Cardinality(CallerOps) < MaxLockCalls
       /\ CallDelete(NameEqBob)
    \/ \E o \in 1..Len(ops) : FindReadOk(o)
    \/ \E o \in 1..Len(ops) : DeleteReadOk(o)
    \/ \E o \in 1..Len(ops) : AppendOk(o)
    \/ \E o \in 1..Len(ops) : TruncateOk(o)

TagSpec == TagInit /\ [][TagNext]_vars

\* finds and inserts on two handles
HandleInit ==
    /\ log = << >> /\ ops = << >> /\ holder = 0 /\ queue = << >>
    /\ alive = TRUE /\ faults = 0 /\ lastSettled = 0 /\ everTombstoned = {}
    /\ fullTextSearchFieldNames = << "name" >>
    /\ textRecord = Ann
    /\ textSearch = << >>
    /\ matchQuery = EmptyQuery
    /\ textOut = "none"
    /\ HandlesIdle

HandleNext ==
    \/ \E h \in Handles, kind \in {"find", "insert"} : HandleCall(h, kind)
    \/ \E c \in 1..Len(calls) : HandleSettle(c)

TwoHandleSpec == HandleInit /\ [][HandleNext]_vars

\* finds with sort and projection options, on logs of records that tie on
\* a sort key
Bo == [name |-> << "B", "o" >>, age |-> 30]

ShapeLines == { Line("E", Ann), Line("E", Bob), Line("E", Bo) }

ShapeLogs == UNION { [1..k -> ShapeLines] : k \in 0..MaxShapeLines }

AgeUp == << [key |-> "age", dir |-> 1] >>
AgeDownNameUp == << [key |-> "age", dir |-> -1], [key |-> "name", dir |-> 1] >>

\* a field with no condition, and a condition with none of the four keys
AgeUndefined == [age |-> Undefined]
AgeUnknown == [age |-> [ne |-> 25]]

\* a condition that is a bare value
AgeBare == [age |-> Primitive(25)]

\* the finds of these runs: a query and the options
ShapeCalls ==
    { << EmptyQuery, [sort |-> AgeUp] >>,
      << EmptyQuery, [sort |-> AgeDownNameUp] >>,
      << EmptyQuery, [sort |-> AgeUp, projection |-> {"name"}] >>,
      << AgeGt26, [sort |-> AgeDownNameUp, projection |-> {"name"}] >>,
      << AgeUndefined, NoOptions >>,
      << AgeUnknown, [sort |-> AgeUp] >>,
      << AgeBare, NoOptions >> }

ShapeInit ==
    /\ log \in ShapeLogs
    /\ ops = << >>
    /\ holder = 0
    /\ queue = << >>
    /\ alive = TRUE
    /\ faults = 0
    /\ lastSettled = 0
    /\ everTombstoned = TombstonesOf(log)
    /\ fullTextSearchFieldNames = << "name" >>
    /\ textRecord = Ann
    /\ textSearch = << >>
    /\ matchQuery = EmptyQuery
    /\ textOut = "none"
    /\ HandlesIdle

ShapeNext ==
    \/ /\ Cardinality(CallerOps) < MaxShapeCalls
       /\ \E c \in ShapeCalls : CallFindWith(c[1], c[2])
    \/ \E o \in 1..Len(ops) : FindReadOk(o)
    \/ \E o \in 1..Len(ops) : FindRaise(o)
    \/ \E o \in 1..Len(ops) : ReadFail(o)

ShapeSpec == ShapeInit /\ [][ShapeNext]_vars

-----------------------------------------------------------------------------
(* What the claims speak of *)

OpIds == 1..Len(ops)

IsCall(i, kind) == ops[i].kind = kind /\ ops[i].parent = 0

Resolved(i) == ops[i].pc = "resolved"

Count(records, r) == Cardinality({ k \in 1..Len(records) : records[k] = r })

Matches(r, q) == matchesQuery(r, q, fullTextSearchFieldNames)

ChildrenOf(d) == { c \in OpIds : ops[c].parent = d }

\* delete d has truncated the log and not all its re-appends are done
MidRewrite(d) ==
    /\ ops[d].kind = "delete"
    /\ Resolved(d)
    /\ \E c \in ChildrenOf(d) : ops[c].pc \in {"queued", "appending"}

\* nothing else was in flight from the call of d to the end of its re-appends
RanAlone(d) ==
    /\ \A i \in 1..(d - 1) : i \in ops[d].seen
    /\ \A i \in (d + 1)..Len(ops) : i \in ChildrenOf(d)

\* C1: once delete(Q) has resolved, a find(Q) called afterwards, with no
\* insert of a record matching Q called between the two, returns the empty
\* sequence, whatever other finds and deletes are interleaved.
C1_DeleteThenFindEmpty ==
    \A d \in OpIds, f \in OpIds :
        ( /\ IsCall(d, "delete") /\ Resolved(d)
          /\ IsCall(f, "find") /\ Resolved(f)
          /\ ops[f].arg = ops[d].arg
          /\ d \in ops[f].seen
          /\ \A i \in (d + 1)..(f - 1) :
                 ~(IsCall(i, "insert") /\ Matches(ops[i].arg, ops[d].arg)) )
        => ops[f].out = << >>

\* C2: between a delete's truncate and the last of its re-appends no other
\* operation reads or writes the log: the lock is free or held by one of
\* that delete's own appends.
C2_DeleteIsOneCriticalSection ==
    \A d \in OpIds :
        MidRewrite(d) => (holder = 0 \/ holder \in ChildrenOf(d))

\* the log delete(q) is to leave behind on the file content data
Rewritten(data, q) ==
    [i \in 1..Len(LiveLines(data)) |->
        [tag |-> IF Matches(LiveLines(data)[i].text.json, q) THEN "D" ELSE "E",
         text |-> LiveLines(data)[i].text]]

\* C3: after a delete(Q) that ran with nothing else in flight, all its
\* appends done, the log is one line per record that was live before, in
\* the order read, tagged D if the record matches Q and E if not.
C3_DeleteRewritesLog ==
    \A d \in OpIds :
        ( /\ IsCall(d, "delete") /\ Resolved(d)
          /\ RanAlone(d)
          /\ \A c \in ChildrenOf(d) : Resolved(c) )
        => log = Rewritten(ops[d].snap, ops[d].arg)

C3_Witness ==
    \E d \in OpIds :
        /\ IsCall(d, "delete") /\ Resolved(d) /\ RanAlone(d)
        /\ Cardinality(ChildrenOf(d)) = 2
        /\ \A c \in ChildrenOf(d) : Resolved(c)
        /\ { log[i].tag : i \in 1..Len(log) } = {"D", "E"}

\* C4: a find({}) called as soon as insert(r) has resolved returns r once
\* more than the live log held it just before the insert's append. No other
\* call inserts r and no delete's query matches r, so that nothing but this
\* insert is to change how often r is live.
C4_InsertThenFindOnce ==
    \A i \in OpIds, f \in OpIds :
        ( /\ IsCall(i, "insert") /\ ops[i].symbol = "E" /\ Resolved(i)
          /\ IsCall(f, "find") /\ ops[f].arg = EmptyQuery /\ Resolved(f)
          /\ ops[f].after = i
          /\ \A j \in OpIds \ {i} :
                 /\ ~(IsCall(j, "insert") /\ ops[j].arg = ops[i].arg)
                 /\ ~(IsCall(j, "delete") /\ Matches(ops[i].arg, ops[j].arg)) )
        => Count(ops[f].out, ops[i].arg)
               = Count(getRecords(ops[i].snap), ops[i].arg) + 1

\* C5: an operation one of whose storage operations failed is rejected: it
\* never resolves.
C5_StorageFailureRejects ==
    \A o \in OpIds : ops[o].failed => ops[o].pc = "rejected"

\* C6: a find or delete that read a log with an undecodable live line is
\* rejected, and the delete has not truncated.
C6_DecodeErrorRejects ==
    \A o \in OpIds :
        ( /\ ops[o].kind \in {"find", "delete"}
          /\ ops[o].pc \notin {"queued", "reading"}
          /\ ParseThrows(ops[o].snap) )
        => (ops[o].pc = "rejected" /\ log = ops[o].snap)

\* C7: a tombstone is never erased: whenever no operation is in flight, the
\* log holds a D line for every record that ever had one.
C7_TombstonesPersist ==
    holder = 0 => everTombstoned \subseteq TombstonesOf(log)

\* the step the operation holding the lock takes next
HolderStep ==
    \E o \in OpIds :
        \/ FindReadOk(o)
        \/ DeleteReadOk(o)
        \/ ReadThrow(o)
        \/ AppendOk(o)
        \/ TruncateOk(o)

\* C8: an operation that holds the lock releases it: while the lock is held
\* its holder has a step to take, so it is never held for ever.
C8_LockIsReleased ==
    holder # 0 => ENABLED HolderStep

\* what a condition asks of a value, said directly
ConditionHolds(v, c) ==
    CASE "eq" \in DOMAIN c -> v = c.eq
      [] "gt" \in DOMAIN c -> v > c.gt
      [] "lt" \in DOMAIN c -> v < c.lt
      [] "in" \in DOMAIN c -> v \in { c.in[k] : k \in 1..Len(c.in) }

\* the records of the E lines of data that satisfy every condition of q
LiveMatches(data, q) ==
    LET Wanted(x) == /\ x.tag = "E"
                     /\ \A key \in DOMAIN q : ConditionHolds(x.text.json[key], q[key])
        lines == SelectSeq(data, Wanted)
    IN  [i \in 1..Len(lines) |-> lines[i].text.json]

AnnAndBob == << Line("E", Ann), Line("E", Bob) >>

\* C9: find(Q) returns the records of the E lines that match Q, once per
\* line, in log order, $gt and $lt strict and $in membership; on the log of
\* Ann and Bob find({age: {$gt: 26}}) is Ann alone, and so is find({}) after
\* delete({name: {$eq: "Bob"}}).
C9_FindReturnsLiveMatches ==
    \A f \in OpIds :
        (IsCall(f, "find") /\ Resolved(f)) =>
            /\ ops[f].out = LiveMatches(ops[f].snap, ops[f].arg)
            /\ (ops[f].snap = AnnAndBob /\ ops[f].arg = AgeGt26)
                   => ops[f].out = << Ann >>
            /\ \A d \in ops[f].seen :
                   ( /\ IsCall(d, "delete") /\ ops[d].arg = NameEqBob
                     /\ ops[d].snap = AnnAndBob
                     /\ \A i \in 1..(f - 1) : i = d \/ i \in ChildrenOf(d)
                     /\ ops[f].arg = EmptyQuery )
                   => ops[f].out = << Ann >>

C9_Witness ==
    \E d \in OpIds, g \in OpIds :
        /\ IsCall(d, "delete") /\ ops[d].arg = NameEqBob /\ ops[d].snap = AnnAndBob
        /\ IsCall(g, "find") /\ Resolved(g) /\ d \in ops[g].seen
        /\ ops[g].arg = EmptyQuery /\ ops[g].out = << Ann >>
        /\ ops[g].snap = << Line("E", Ann), Line("D", Bob) >>

-----------------------------------------------------------------------------
(* The claim on the lock of one handle *)

\* the operations that have issued a storage operation (readFile, appendFile
\* or truncate) which has not called back yet
InProgress == { o \in OpIds : ops[o].pc \in {"reading", "appending", "truncating"} }

\* C14: at every moment at most one storage operation is in progress on the
\* file of the handle, and the operation it belongs to holds the lock, in
\* every interleaving of find, insert and delete
C14_OneStorageOperationAtATime ==
    /\ Cardinality(InProgress) <= 1
    /\ InProgress \subseteq { holder }

\* a delete is truncating while a caller's operation and nothing else waits
C14_Witness ==
    \E d, c \in OpIds :
        /\ ops[d].kind = "delete" /\ ops[d].pc = "truncating"
        /\ ops[c].parent = 0 /\ ops[c].pc = "queued"
        /\ queue = << c >>
        /\ InProgress = { d }

-----------------------------------------------------------------------------
(* The claim on what insert writes and on the tags find reads *)

\* the records of the lines of data whose first character is E
TaggedE(data) ==
    LET StartsWithE(x) == x.tag = "E"
        lines == SelectSeq(data, StartsWithE)
    IN  [i \in 1..Len(lines) |-> lines[i].text.json]

\* this step is the call of insert(record, asDeleted)
InsertCalled(record, asDeleted) ==
    /\ Len(ops') = Len(ops) + 1
    /\ ops'[Len(ops')].kind = "insert"
    /\ ops'[Len(ops')].parent = 0
    /\ ops'[Len(ops')].arg = record
    /\ CallInsert(record, asDeleted)

\* this step completes the append of insert o
Appended(o) ==
    /\ ops[o].kind = "insert" /\ ops[o].pc = "appending"
    /\ ops'[o].pc = "resolved"

\* this step resolves find o
Found(o) ==
    /\ ops[o].kind = "find" /\ ops[o].pc = "reading"
    /\ ops'[o].pc = "resolved"

InsertAppendsFindReadsE ==
    /\ \A r \in Records, asDeleted \in BOOLEAN :
          InsertCalled(r, asDeleted) =>
              ops'[Len(ops')].symbol = IF asDeleted THEN "D" ELSE "E"
    /\ \A o \in OpIds :
          Appended(o) => log' = Append(log, Line(ops[o].symbol, ops[o].arg))
    /\ \A o \in OpIds :
          (Found(o) /\ ops[o].arg = EmptyQuery) => ops'[o].out = TaggedE(log)

\* C17: insert appends exactly one line to the end of the log and leaves
\* the lines before it as they are; the line is tagged E, or D when asDeleted
\* is true; find returns no record of a line whose first character is not E
C17_InsertAppendsOneTaggedLine == [][InsertAppendsFindReadsE]_vars

\* insert(Bob, true) has put D{Bob} behind an X line and a live Ann, and a
\* find returned Ann alone
C17_Witness ==
    \E i, f \in OpIds :
        /\ IsCall(i, "insert") /\ Resolved(i) /\ ops[i].symbol = "D"
        /\ ops[i].snap = << Line("X", Bob), Line("E", Ann) >>
        /\ log = << Line("X", Bob), Line("E", Ann), Line("D", Bob) >>
        /\ IsCall(f, "find") /\ Resolved(f)
        /\ ops[f].snap = log
        /\ ops[f].out = << Ann >>

-----------------------------------------------------------------------------
(* The claim on two handles *)

\* C18: operations on two different handles never wait for each other: a
\* call waits for its lock only while a call on its own handle holds it,
\* whatever calls on the other handle hold or wait for, though both handles
\* use the key string 'lock'
C18_HandlesDoNotWaitForEachOther ==
    \A c \in 1..Len(calls) :
        calls[c].pc = "queued" =>
            \E d \in 1..Len(calls) :
                /\ calls[d].pc = "running"
                /\ calls[d].handle = calls[c].handle

\* handle 1 has a call running and a call waiting, and the call made on
\* handle 2 after them is running
C18_Witness ==
    /\ Len(calls) = 3
    /\ calls[1].handle = 1 /\ calls[1].pc = "running"
    /\ calls[2].handle = 1 /\ calls[2].pc = "queued"
    /\ calls[3].handle = 2 /\ calls[3].pc = "running"

-----------------------------------------------------------------------------
(* The claim on records kept through concurrent calls *)

\* every call made and every append a delete started has finished
Quiescent ==
    /\ alive /\ holder = 0 /\ queue = << >>
    /\ \A o \in OpIds : Resolved(o)

\* the lines of data that hold record r, whatever their tag
LinesOf(data, r) == { k \in 1..Len(data) : data[k].text = JSONstringify(r) }

\* the log before the first call: the first call ran at once, and snap is
\* the log its storage operation found
LogAtStart == ops[1].snap

\* the callers' inserts of r with the given tag
InsertsOf(r, symbol) ==
    { i \in OpIds : IsCall(i, "insert") /\ ops[i].arg = r /\ ops[i].symbol = symbol }

\* C19: with no storage failure, once every call and every append it started
\* has finished, a record that was inserted live (once, and into a log that
\* had no line of it) has exactly one line in the log, and the line is tagged
\* E if the record matches the query of no delete that was called
C19_NoRecordLostOrDuplicated ==
    (Quiescent /\ Len(ops) > 0) =>
        \A r \in Records :
            ( /\ Cardinality(InsertsOf(r, "E")) = 1
              /\ InsertsOf(r, "D") = {}
              /\ LinesOf(LogAtStart, r) = {} )
                => /\ Cardinality(LinesOf(log, r)) = 1
                   /\ (\A d \in OpIds : IsCall(d, "delete") => ~Matches(r, ops[d].arg))
                         => \A k \in LinesOf(log, r) : log[k].tag = "E"

-----------------------------------------------------------------------------
(* The claims on sort and projection *)

\* find f has just resolved. The result of a call is looked at in the state
\* its promise settles in: out, snap and options do not change afterwards
JustResolved(f) == IsCall(f, "find") /\ Resolved(f) /\ lastSettled = f

HasSort(f) == HasKey(ops[f].options, "sort")

HasProjection(f) == HasKey(ops[f].options, "projection")

\* the records a find filtered out of the log it read
Filtered(f) == Filter(getRecords(ops[f].snap), ops[f].arg)

\* a comes strictly before b in the order the sort mapping asks for: they
\* are equal on a prefix of the keys, and on the next key a is the smaller
\* (direction 1) or the larger (direction -1)
Precedes(a, b, sortOption) ==
    \E i \in 1..Len(sortOption) :
        /\ \A j \in 1..(i - 1) :
              /\ ~Less(a[sortOption[j].key], b[sortOption[j].key])
              /\ ~Less(b[sortOption[j].key], a[sortOption[j].key])
        /\ IF sortOption[i].dir = 1
           THEN Less(a[sortOption[i].key], b[sortOption[i].key])
           ELSE Less(b[sortOption[i].key], a[sortOption[i].key])

\* the records of a sequence that are r or s, in the sequence's order
Only(records, r, s) ==
    LET Either(x) == x = r \/ x = s
    IN  SelectSeq(records, Either)

AllRecords == { Ann, Bob, Bo }

\* out is the stable ordering of in by sortOption
StablySorted(in, out, sortOption) ==
    /\ Len(out) = Len(in)
    /\ \A r \in AllRecords : Count(out, r) = Count(in, r)
    /\ \A i, j \in 1..Len(out) :
          i < j => ~Precedes(out[j], out[i], sortOption)
    /\ \A r, s \in AllRecords :
          (~Precedes(r, s, sortOption) /\ ~Precedes(s, r, sortOption))
              => Only(out, r, s) = Only(in, r, s)

\* C11: a find with a sort option returns a permutation of the matching
\* records, ordered lexicographically by the keys of the sort mapping in
\* mapping order, ascending for 1 and descending for -1, records that tie on
\* every key keeping the order they have in the log
C11_SortIsStableLexicographic ==
    \A f \in OpIds :
        (JustResolved(f) /\ HasSort(f) /\ ~HasProjection(f))
            => StablySorted(Filtered(f), ops[f].out, ops[f].options.sort)

\* a descending sort that had to move a record, and kept a tie in log order
C11_Witness ==
    \E f, g \in OpIds :
        /\ IsCall(f, "find") /\ Resolved(f) /\ IsCall(g, "find") /\ Resolved(g)
        /\ ops[f].arg = EmptyQuery /\ ops[g].arg = EmptyQuery
        /\ ops[f].options = [sort |-> AgeDownNameUp]
        /\ ops[f].snap = << Line("E", Bob), Line("E", Ann) >>
        /\ ops[f].out = << Ann, Bob >>
        /\ ops[g].options = [sort |-> AgeUp]
        /\ ops[g].out = << Bob, Ann >>

\* the one sequence that is the stable ordering of in by sortOption
SortedBy(in, sortOption) ==
    CHOOSE out \in [1..Len(in) -> AllRecords] : StablySorted(in, out, sortOption)

\* what find(Q, {sort: S}) returns for the log and query of find f
Unprojected(f) ==
    IF HasSort(f) THEN SortedBy(Filtered(f), ops[f].options.sort) ELSE Filtered(f)

\* projected is records, each reduced to exactly the fields of the projection
ReducedTo(projected, records, projectionOption) ==
    /\ Len(projected) = Len(records)
    /\ \A i \in 1..Len(projected) :
          /\ DOMAIN projected[i] = projectionOption
          /\ \A key \in projectionOption : projected[i][key] = records[i][key]

\* C12: a find with a projection returns what the same find without the
\* projection returns, each record reduced to exactly the projected fields:
\* the same records in the same order, also when the sort keys are not among
\* the projected fields
C12_ProjectionKeepsRecordsAndOrder ==
    \A f \in OpIds :
        (IsCall(f, "find") /\ Resolved(f) /\ HasProjection(f))
            => /\ JustResolved(f) =>
                     ReducedTo(ops[f].out, Unprojected(f), ops[f].options.projection)
               /\ \A g \in OpIds :
                     ( /\ IsCall(g, "find") /\ Resolved(g)
                       /\ ops[g].arg = ops[f].arg /\ ops[g].snap = ops[f].snap
                       /\ HasSort(g) /\ ~HasProjection(g)
                       /\ ops[g].options.sort = ops[f].options.sort )
                         => ReducedTo(ops[f].out, ops[g].out,
                                      ops[f].options.projection)

\* the same find with and without a projection on name, sorted by age
C12_Witness ==
    \E f, g \in OpIds :
        /\ IsCall(f, "find") /\ Resolved(f) /\ IsCall(g, "find") /\ Resolved(g)
        /\ ops[f].arg = EmptyQuery /\ ops[g].arg = EmptyQuery
        /\ ops[f].snap = << Line("E", Ann), Line("E", Bob) >>
        /\ ops[f].options = [sort |-> AgeUp, projection |-> {"name"}]
        /\ ops[g].options = [sort |-> AgeUp]
        /\ ops[g].out = << Bob, Ann >>
        /\ ops[f].out = << [name |-> Bob.name], [name |-> Ann.name] >>

-----------------------------------------------------------------------------
(* The claim on conditions that are not conditions *)

\* a condition the matcher can evaluate: it has one of the four keys
WellFormed(c) ==
    /\ ~IsUndefined(c)
    /\ ~IsPrimitive(c)
    /\ DOMAIN c \cap {"eq", "gt", "lt", "in"} # {}

\* every field the property query names has a condition, and it holds
PropertyHolds(record, propertyQuery) ==
    \A key \in DOMAIN propertyQuery :
        /\ WellFormed(propertyQuery[key])
        /\ ConditionHolds(record[key], propertyQuery[key])

IsPropertyQuery(query) == DOMAIN query \cap {"and", "or", "text"} = {}

\* the records of the log find f read that satisfy its property query
Holding(f) ==
    LET Holds(r) == PropertyHolds(r, ops[f].arg)
    IN  SelectSeq(getRecords(ops[f].snap), Holds)

Settled(f) == ops[f].pc \in {"resolved", "rejected"}

\* C16: a find with a property query whose read of the file succeeded
\* resolves, with the records for which the condition of every field named
\* in the query holds; a field whose condition is undefined or has none of
\* $eq, $gt, $lt, $in makes a record not match and nothing is raised; the log
\* is as it was
C16_BadConditionsDoNotMatch ==
    \A f \in OpIds :
        ( /\ IsCall(f, "find") /\ Settled(f) /\ lastSettled = f
          /\ ~ops[f].failed /\ IsPropertyQuery(ops[f].arg) )
            => /\ Resolved(f)
               /\ Len(ops[f].out) = Len(Holding(f))
               /\ ~HasProjection(f) =>
                     \A r \in AllRecords :
                         Count(ops[f].out, r) = Count(Holding(f), r)
               /\ log = ops[f].snap

-----------------------------------------------------------------------------
(* The claim on find and the log *)

\* this step settles find o: its promise resolves or rejects
FindSettles(o) ==
    /\ ops[o].kind = "find" /\ ops[o].pc = "reading"
    /\ ops'[o].pc \in {"resolved", "rejected"}

FindKeepsLog ==
    /\ \A o \in OpIds : FindSettles(o) => log' = log
    /\ \A f, g \in OpIds :
          ( /\ f < g /\ FindSettles(g)
            /\ IsCall(f, "find") /\ Resolved(f) /\ ops'[g].pc = "resolved"
            /\ ops[g].arg = ops[f].arg /\ ops[g].options = ops[f].options )
              => ops'[g].out = ops[f].out

\* C20: find never changes the log, whatever the query, the sort and the
\* projection and whether it resolves or rejects; and a find returns what
\* the same find returned before it, sorted or projected as that was
C20_FindLeavesLogAlone == [][FindKeepsLog]_vars

\* a find sorted by age returned Bob before Ann, the log still has Ann
\* before Bob, and the same find called after it returned the same
C20_Witness ==
    \E f, g \in OpIds :
        /\ f < g /\ f \in ops[g].seen
        /\ IsCall(f, "find") /\ Resolved(f) /\ IsCall(g, "find") /\ Resolved(g)
        /\ ops[f].options = [sort |-> AgeUp] /\ ops[g].options = [sort |-> AgeUp]
        /\ ops[f].arg = EmptyQuery /\ ops[g].arg = EmptyQuery
        /\ ops[f].out = << Bob, Ann >> /\ ops[g].out = << Bob, Ann >>
        /\ log = << Line("E", Ann), Line("E", Bob) >>

-----------------------------------------------------------------------------
(* The matcher on its own: a record of two full-text fields and a search    *)
(* string drawn from the bounded strings, then matchesQuery applied.        *)

TextInit ==
    /\ log = << >> /\ ops = << >> /\ holder = 0 /\ queue = << >>
    /\ alive = TRUE /\ faults = 0 /\ lastSettled = 0 /\ everTombstoned = {}
    /\ fullTextSearchFieldNames = << "title", "body" >>
    /\ textRecord \in [title : Str(MaxFieldLen), body : Str(MaxFieldLen)]
    /\ textSearch \in Str(MaxSearchLen)
    /\ matchQuery = EmptyQuery
    /\ textOut = "none"
    /\ HandlesIdle

EvalText ==
    /\ textOut = "none"
    /\ textOut' = IF matchesQuery(textRecord, [text |-> textSearch],
                                  fullTextSearchFieldNames)
                   THEN "match" ELSE "nomatch"
    /\ UNCHANGED << dbVars, fullTextSearchFieldNames, textRecord, textSearch,
                    matchQuery, handleVars >>

TextNext == EvalText

TextSpec == TextInit /\ [][TextNext]_vars

\* The matcher on a record and a query: the records have an array-valued
\* field, whose value is a reference (=== compares arrays by identity), and
\* the queries are property queries on one field, $text queries, and $and
\* and $or over them, nested
Tags(ref) == [ref |-> ref, items |-> << "x" >>]

AnnTagged == [name |-> Ann.name, age |-> Ann.age, tags |-> Tags(1)]
BobTagged == [name |-> Bob.name, age |-> Bob.age, tags |-> Tags(2)]

MatchRecords == { AnnTagged, BobTagged }

\* {f: {$eq: R.f}}
EqQuery(R, f) == [key \in {f} |-> [eq |-> R[f]]]

EqQueries == { EqQuery(R, f) : R \in MatchRecords, f \in {"name", "age", "tags"} }

TextAnn == [text |-> << "a", "n", "n" >>]

And(subqueries) == [and |-> subqueries]
Or(subqueries) == [or |-> subqueries]

Subqueries ==
    { AgeGt26, NameEqBob, TextAnn, And(<< >>), Or(<< >>),
      And(<< AgeGt26, TextAnn >>), Or(<< NameEqBob, AgeGt26 >>) }

SubqueryLists == UNION { [1..k -> Subqueries] : k \in 0..MaxSubqueries }

\* nested three deep
DeepQueries ==
    { Or(<< And(<< q, Or(<< NameEqBob >>) >>) >>) : q \in Subqueries }
        \cup { And(<< Or(<< q, And(<< AgeGt26, NameEqBob >>) >>) >>) : q \in Subqueries }

\* objects with more than one of the keys the matcher looks for
MixedQueries ==
    { [and |-> << >>, or |-> << >>],
      [and |-> << NameEqBob >>, or |-> << AgeGt26 >>],
      Or(<< [and |-> << NameEqBob >>, or |-> << AgeGt26 >>], Or(<< >>) >>),
      [or |-> << >>, text |-> << "a", "n", "n" >>],
      [or |-> << AgeGt26 >>, age |-> [lt |-> 0]],
      [and |-> << AgeGt26 >>, text |-> << "b", "o", "b" >>, age |-> [lt |-> 0]],
      [text |-> << "a", "n", "n" >>, age |-> [lt |-> 0]],
      [text |-> << "b", "o", "b" >>, name |-> [eq |-> Ann.name]] }

MatchQueries ==
    EqQueries \cup { And(l) : l \in SubqueryLists } \cup { Or(l) : l \in SubqueryLists }
        \cup DeepQueries \cup MixedQueries

MatchInit ==
    /\ log = << >> /\ ops = << >> /\ holder = 0 /\ queue = << >>
    /\ alive = TRUE /\ faults = 0 /\ lastSettled = 0 /\ everTombstoned = {}
    /\ fullTextSearchFieldNames = << "name" >>
    /\ textRecord \in MatchRecords
    /\ textSearch = << >>
    /\ matchQuery \in MatchQueries
    /\ textOut = "none"
    /\ HandlesIdle

EvalMatch ==
    /\ textOut = "none"
    /\ textOut' = IF matchesQuery(textRecord, matchQuery, fullTextSearchFieldNames)
                   THEN "match" ELSE "nomatch"
    /\ UNCHANGED << dbVars, fullTextSearchFieldNames, textRecord, textSearch,
                    matchQuery, handleVars >>

MatchNext == EvalMatch

MatchSpec == MatchInit /\ [][MatchNext]_vars

\* C13: every record R matches the property query {f: {$eq: R.f}}, for every
\* field f of R
C13_EqIsReflexive ==
    \A f \in DOMAIN textRecord :
        (textOut # "none" /\ matchQuery = EqQuery(textRecord, f))
            => textOut = "match"

\* the query names the record's own array-valued field
C13_Witness ==
    /\ textRecord = AnnTagged
    /\ matchQuery = EqQuery(AnnTagged, "tags")
    /\ textOut = "match"

\* what a query object is taken for: and before or, or before full-text,
\* full-text before property query
Classified(query) ==
    CASE HasKey(query, "and") -> "and"
      [] ~HasKey(query, "and") /\ HasKey(query, "or") -> "or"
      [] ~HasKey(query, "and") /\ ~HasKey(query, "or") /\ HasKey(query, "text") -> "text"
      [] OTHER -> "property"

\* the record satisfies the query, read as the class it is taken for
RECURSIVE Satisfies(_, _)
Satisfies(record, query) ==
    CASE Classified(query) = "and" ->
             ~\E i \in DOMAIN query.and : ~Satisfies(record, query.and[i])
      [] Classified(query) = "or" ->
             { i \in DOMAIN query.or : Satisfies(record, query.or[i]) } # {}
      [] Classified(query) = "text" ->
             matchesText(record, query.text, fullTextSearchFieldNames)
      [] OTHER ->
             matchesPropertyQuery(record, query)

\* C15: an AND-combinator matches a record iff every subquery matches it
\* (the empty list matches every record), an OR-combinator iff at least one
\* subquery matches it (the empty list matches none), at any nesting depth;
\* a query object is taken for and, then or, then full-text, then property
C15_CombinatorsAndPriority ==
    textOut # "none" =>
        /\ (textOut = "match") <=> Satisfies(textRecord, matchQuery)
        /\ matchQuery = And(<< >>) => textOut = "match"
        /\ matchQuery = Or(<< >>) => textOut = "nomatch"

\* an OR of an empty OR and of an object with both combinator keys, which is
\* taken for the AND of its $and list and so does not match Ann
C15_Witness ==
    /\ textRecord = AnnTagged
    /\ matchQuery = Or(<< [and |-> << NameEqBob >>, or |-> << AgeGt26 >>], Or(<< >>) >>)
    /\ textOut = "nomatch"

-----------------------------------------------------------------------------
(* The full-text claim *)

\* the whitespace-delimited tokens of s: its maximal runs of non-space
\* characters
Tokens(s) ==
    { SubSeq(s, i, j) : << i, j >> \in
        { p \in (1..Len(s)) \X (1..Len(s)) :
            /\ p[1] <= p[2]
            /\ \A k \in p[1]..p[2] : s[k] # " "
            /\ (p[1] = 1 \/ s[p[1] - 1] = " ")
            /\ (p[2] = Len(s) \/ s[p[2] + 1] = " ") } }

\* C10: a full-text query matches iff every whitespace-delimited lower-cased
\* token of the search string is a whole token of the lower-cased content of
\* some full-text field; the empty string and strings with leading, trailing
\* or consecutive spaces included.
C10_TextMatchesByTokens ==
    textOut # "none" =>
        ( textOut = "match" <=>
            \A t \in Tokens(toLowerCase(textSearch)) :
                \E i \in 1..Len(fullTextSearchFieldNames) :
                    t \in Tokens(toLowerCase(textRecord[fullTextSearchFieldNames[i]])) )

====
